---- MODULE Spec2Model ----
(***************************************************************************)
(* count-write: CountWrite<W>, a wrapper around a writer W that counts the *)
(* bytes W reports as written (src/src/lib.rs), with the tokio AsyncWrite  *)
(* implementation (src/src/tokio.rs).                                      *)
(*                                                                         *)
(* The wrapper is the record cw = [inner, count].  The inner writer W is   *)
(* generic in the source; here it is an in-memory sink that keeps the      *)
(* bytes it accepted (content), the calls it saw (calls) and the result it *)
(* last returned (lastRet).  How much a call accepts, or whether it fails  *)
(* or is pending, is the environment's choice (resp).                      *)
(*                                                                         *)
(* The u64 counter is scaled down to CountBits bits so that TLC can reach  *)
(* the end of its range; `count += written as u64` panics on overflow in a *)
(* build with overflow checks and wraps in a build without them.           *)
(***************************************************************************)
EXTENDS Integers, Sequences, FiniteSets, TLC

VARIABLES
    cw,               \* the CountWrite: [inner |-> W, count |-> u64]
    status,           \* "live", "consumed" (into_inner), "panicked"
    overflow_checks,  \* the build: TRUE panics on overflow, FALSE wraps
    direct,           \* an unwrapped copy of W given the same calls
    issued,           \* the calls the caller issued on the wrapper
    sum,              \* sum of the n of every Ok(n) the inner write returned
    offered,          \* concatenation of the buffers accepted at least in part
    accepted,         \* concatenation of the accepted prefixes buf[..n]
    last,             \* the most recent call and what it returned
    pc,               \* write_all: "idle", "loop", "done", "err"
    wbuf,             \* write_all: the buffer passed to write_all
    rest              \* write_all: the suffix not yet accepted

vars == <<cw, status, overflow_checks, direct, issued, sum, offered, accepted,
          last, pc, wbuf, rest>>

----------------------------------------------------------------------------
(* Bounds *)

CountBits == 2      \* width of the counter (u64 in the source, scaled down)
MaxLen == 2         \* longest buffer passed to write / poll_write
MaxOps == 3         \* calls forwarded to the inner writer in one run
MaxAllLen == 3      \* longest buffer passed to write_all

Modulus == 2 ^ CountBits

Min(a, b) == IF a <= b THEN a ELSE b

\* The buffer of length n: bytes 1..n, all different.
Data(n) == [i \in 1..n |-> i]

Bufs == {Data(n) : n \in 0..Min(MaxLen, Modulus - 1)}

Bytes == 1..3

AllBufs == UNION {[1..n -> Bytes] : n \in 0..Min(MaxAllLen, Modulus - 1)}

Errors == {"Interrupted", "BrokenPipe"}

----------------------------------------------------------------------------
(* Results: io::Result<usize>, io::Result<()>, Poll<io::Result<_>> *)

Ok(n) == [tag |-> "Ok", n |-> n, err |-> "none"]
Err(e) == [tag |-> "Err", n |-> 0, err |-> e]
Pending == [tag |-> "Pending", n |-> 0, err |-> "none"]
NoReturn == [tag |-> "Panic", n |-> 0, err |-> "none"]

----------------------------------------------------------------------------
(* The inner writer W *)

Accept(c) == [kind |-> "accept", cap |-> c, err |-> "none"]
Fail(e) == [kind |-> "fail", cap |-> 0, err |-> e]
NotReady == [kind |-> "pending", cap |-> 0, err |-> "none"]

WriteResponses == {Accept(c) : c \in 0..MaxLen} \cup {Fail(e) : e \in Errors}
FlushResponses == {Accept(0)} \cup {Fail(e) : e \in Errors}

EmptySink == [content |-> <<>>, calls |-> <<>>, lastRet |-> Ok(0)]

\* W::write / W::poll_write: accepts the first Min(cap, len) bytes of buf.
InnerWrite(w, op, buf, resp) ==
    LET ret == IF resp.kind = "accept" THEN Ok(Min(resp.cap, Len(buf)))
               ELSE IF resp.kind = "fail" THEN Err(resp.err)
               ELSE Pending
    IN [w |-> [content |-> w.content \o SubSeq(buf, 1, ret.n),
               calls |-> Append(w.calls, [op |-> op, buf |-> buf]),
               lastRet |-> ret],
        ret |-> ret]

\* W::flush / W::poll_flush / W::poll_shutdown.
InnerFlush(w, op, resp) ==
    LET ret == IF resp.kind = "accept" THEN Ok(0)
               ELSE IF resp.kind = "fail" THEN Err(resp.err)
               ELSE Pending
    IN [w |-> [content |-> w.content,
               calls |-> Append(w.calls, [op |-> op, buf |-> <<>>]),
               lastRet |-> ret],
        ret |-> ret]

\* OnlyHalf::write: Ok((buf.len() + 1) / 2).
OnlyHalf(buf) == Accept((Len(buf) + 1) \div 2)

----------------------------------------------------------------------------
(* CountWrite *)

\* From<W>::from
From(inner) == [inner |-> inner, count |-> 0]

\* CountWrite::count
Count(w) == w.count

\* CountWrite::into_inner
IntoInner(w) == w.inner

\* `written as u64`
AsU64(n) == n % Modulus

\* `self.count += written as u64`: the new count, or a panic.
AddAssign(c, written, checks) ==
    LET s == c + AsU64(written)
    IN IF s < Modulus THEN [panicked |-> FALSE, val |-> s]
       ELSE IF checks THEN [panicked |-> TRUE, val |-> c]
       ELSE [panicked |-> FALSE, val |-> s % Modulus]

\* A write that counts the bytes requested, whatever the inner writer says.
Write_CountsRequested(w, buf, resp, checks) ==
    LET r == InnerWrite(w.inner, "write", buf, resp)
        a == AddAssign(w.count, Len(buf), checks)
    IN [cw |-> [inner |-> r.w, count |-> a.val],
        ret |-> IF a.panicked THEN NoReturn ELSE r.ret]

\* A write that forwards the buffer to the inner writer twice.
Write_ForwardsTwice(w, buf, resp, checks) ==
    LET r0 == InnerWrite(w.inner, "write", buf, resp)
        r == InnerWrite(r0.w, "write", buf, resp)
    IN IF r.ret.tag = "Err"
       THEN [cw |-> [inner |-> r.w, count |-> w.count], ret |-> r.ret]
       ELSE LET a == AddAssign(w.count, r.ret.n, checks)
            IN [cw |-> [inner |-> r.w, count |-> a.val],
                ret |-> IF a.panicked THEN NoReturn ELSE Ok(r.ret.n)]

\* <CountWrite<W> as Write>::write
\*   let written = self.inner.write(buf)?;
\*   self.count += written as u64;
\*   Ok(written)
Write(w, buf, resp, checks) ==
    LET r == InnerWrite(w.inner, "write", buf, resp)
    IN IF r.ret.tag = "Err"
       THEN [cw |-> [inner |-> r.w, count |-> w.count], ret |-> r.ret]
       ELSE LET a == AddAssign(w.count, r.ret.n, checks)
            IN [cw |-> [inner |-> r.w, count |-> a.val],
                ret |-> IF a.panicked THEN NoReturn ELSE Ok(r.ret.n)]

\* A flush that reports success whatever the inner flush returned.
Flush_SwallowsError(w, resp) ==
    LET r == InnerFlush(w.inner, "flush", resp)
    IN [cw |-> [inner |-> r.w, count |-> w.count], ret |-> Ok(0)]

\* <CountWrite<W> as Write>::flush
\*   self.inner.flush()
Flush(w, resp) ==
    LET r == InnerFlush(w.inner, "flush", resp)
    IN [cw |-> [inner |-> r.w, count |-> w.count], ret |-> r.ret]

\* <CountWrite<W> as AsyncWrite>::poll_write
\*   let ret = pin.poll_write(ctx, buf);
\*   if let Poll::Ready(Ok(written)) = &ret { *count += *written as u64; }
\*   ret
PollWrite(w, buf, resp, checks) ==
    LET r == InnerWrite(w.inner, "poll_write", buf, resp)
    IN IF r.ret.tag = "Ok"
       THEN LET a == AddAssign(w.count, r.ret.n, checks)
            IN [cw |-> [inner |-> r.w, count |-> a.val],
                ret |-> IF a.panicked THEN NoReturn ELSE r.ret]
       ELSE [cw |-> [inner |-> r.w, count |-> w.count], ret |-> r.ret]

\* <CountWrite<W> as AsyncWrite>::poll_flush
PollFlush(w, resp) ==
    LET r == InnerFlush(w.inner, "poll_flush", resp)
    IN [cw |-> [inner |-> r.w, count |-> w.count], ret |-> r.ret]

\* A poll_shutdown that answers Ready(Ok(())) without reaching the inner writer.
PollShutdown_NotForwarded(w, resp) ==
    [cw |-> w, ret |-> Ok(0)]

\* <CountWrite<W> as AsyncWrite>::poll_shutdown
PollShutdown(w, resp) ==
    LET r == InnerFlush(w.inner, "poll_shutdown", resp)
    IN [cw |-> [inner |-> r.w, count |-> w.count], ret |-> r.ret]

----------------------------------------------------------------------------
(* The caller *)

NoCall == [op |-> "none", buf |-> <<>>, pre |-> 0, ret |-> Ok(0), dret |-> Ok(0)]

Init ==
    /\ cw = From(EmptySink)
    /\ status = "live"
    /\ overflow_checks \in BOOLEAN
    /\ direct = EmptySink
    /\ issued = <<>>
    /\ sum = 0
    /\ offered = <<>>
    /\ accepted = <<>>
    /\ last = NoCall
    /\ pc = "idle"
    /\ wbuf = <<>>
    /\ rest = <<>>

CanCall == status = "live" /\ pc = "idle" /\ Len(issued) < MaxOps

\* What every forwarded call records: r is the wrapper's result, d the
\* unwrapped copy's.
Record(op, buf, r, d) ==
    /\ cw' = r.cw
    /\ status' = IF r.ret.tag = "Panic" THEN "panicked" ELSE "live"
    /\ direct' = d.w
    /\ issued' = Append(issued, [op |-> op, buf |-> buf])
    /\ last' = [op |-> op, buf |-> buf, pre |-> Count(cw), ret |-> r.ret, dret |-> d.ret]

\* The bookkeeping of a write: what the inner writer returned decides it.
Tally(buf) ==
    LET ir == cw'.inner.lastRet
    IN /\ sum' = IF ir.tag = "Ok" THEN sum + ir.n ELSE sum
       /\ offered' = IF ir.tag = "Ok" /\ ir.n > 0 THEN offered \o buf ELSE offered
       /\ accepted' = IF ir.tag = "Ok" THEN accepted \o SubSeq(buf, 1, ir.n) ELSE accepted

DoWrite ==
    /\ CanCall
    /\ \E buf \in Bufs, resp \in WriteResponses :
          /\ Record("write", buf, Write(cw, buf, resp, overflow_checks),
                    InnerWrite(direct, "write", buf, resp))
          /\ Tally(buf)
    /\ UNCHANGED <<overflow_checks, pc, wbuf, rest>>

DoPollWrite ==
    /\ CanCall
    /\ \E buf \in Bufs, resp \in WriteResponses \cup {NotReady} :
          /\ Record("poll_write", buf, PollWrite(cw, buf, resp, overflow_checks),
                    InnerWrite(direct, "poll_write", buf, resp))
          /\ Tally(buf)
    /\ UNCHANGED <<overflow_checks, pc, wbuf, rest>>

DoFlush ==
    /\ CanCall
    /\ \E resp \in FlushResponses :
          Record("flush", <<>>, Flush(cw, resp), InnerFlush(direct, "flush", resp))
    /\ UNCHANGED <<overflow_checks, sum, offered, accepted, pc, wbuf, rest>>

DoPollFlush ==
    /\ CanCall
    /\ \E resp \in FlushResponses \cup {NotReady} :
          Record("poll_flush", <<>>, PollFlush(cw, resp),
                 InnerFlush(direct, "poll_flush", resp))
    /\ UNCHANGED <<overflow_checks, sum, offered, accepted, pc, wbuf, rest>>

DoPollShutdown ==
    /\ CanCall
    /\ \E resp \in FlushResponses \cup {NotReady} :
          Record("poll_shutdown", <<>>, PollShutdown(cw, resp),
                 InnerFlush(direct, "poll_shutdown", resp))
    /\ UNCHANGED <<overflow_checks, sum, offered, accepted, pc, wbuf, rest>>

\* count(): a read; the value it returns is kept in last.ret.
DoCount ==
    /\ status = "live"
    /\ pc = "idle"
    /\ last' = [op |-> "count", buf |-> <<>>, pre |-> Count(cw),
                ret |-> Ok(Count(cw)), dret |-> Ok(Count(cw))]
    /\ UNCHANGED <<cw, status, overflow_checks, direct, issued, sum, offered,
                   accepted, pc, wbuf, rest>>

\* into_inner(): the wrapper is gone, the caller holds W.
DoIntoInner ==
    /\ status = "live"
    /\ pc = "idle"
    /\ status' = "consumed"
    /\ cw' = [cw EXCEPT !.inner = IntoInner(cw)]
    /\ last' = [op |-> "into_inner", buf |-> <<>>, pre |-> Count(cw),
                ret |-> Ok(0), dret |-> Ok(0)]
    /\ UNCHANGED <<overflow_checks, direct, issued, sum, offered, accepted,
                   pc, wbuf, rest>>

Next ==
    \/ DoWrite
    \/ DoPollWrite
    \/ DoFlush
    \/ DoPollFlush
    \/ DoPollShutdown
    \/ DoCount
    \/ DoIntoInner

Spec == Init /\ [][Next]_vars

----------------------------------------------------------------------------
(* write!(cw, "abc") over CountWrite<OnlyHalf>: the write_all loop, which   *)
(* calls the wrapper's write on the suffix not yet accepted.               *)

InitWriteAll ==
    /\ cw = From(EmptySink)
    /\ status = "live"
    /\ overflow_checks \in BOOLEAN
    /\ direct = EmptySink
    /\ issued = <<>>
    /\ sum = 0
    /\ offered = <<>>
    /\ accepted = <<>>
    /\ last = NoCall
    /\ pc = "loop"
    /\ wbuf \in AllBufs
    /\ rest = wbuf

\* One turn of `while !buf.is_empty() { match self.write(buf) { ... } }`.
WriteAllStep ==
    /\ pc = "loop"
    /\ status = "live"
    /\ rest # <<>>
    /\ LET r == Write(cw, rest, OnlyHalf(rest), overflow_checks)
       IN /\ Record("write", rest, r, InnerWrite(direct, "write", rest, OnlyHalf(rest)))
          /\ Tally(rest)
          /\ pc' = IF r.ret.tag = "Ok" /\ r.ret.n = 0 THEN "err"
                   ELSE IF r.ret.tag = "Err" /\ r.ret.err # "Interrupted" THEN "err"
                   ELSE "loop"
          /\ rest' = IF r.ret.tag = "Ok" THEN SubSeq(rest, r.ret.n + 1, Len(rest))
                     ELSE rest
    /\ UNCHANGED <<overflow_checks, wbuf>>

\* The buffer is empty: write_all returns Ok(()).
WriteAllReturn ==
    /\ pc = "loop"
    /\ status = "live"
    /\ rest = <<>>
    /\ pc' = "done"
    /\ UNCHANGED <<cw, status, overflow_checks, direct, issued, sum, offered,
                   accepted, last, wbuf, rest>>

NextWriteAll ==
    \/ WriteAllStep
    \/ WriteAllReturn

SpecWriteAll == InitWriteAll /\ [][NextWriteAll]_vars /\ WF_vars(NextWriteAll)

----------------------------------------------------------------------------
(* Claims *)

WriteOps == {"write", "poll_write"}
FlushOps == {"flush", "poll_flush", "poll_shutdown"}

\* C1: in every reachable state count() equals the sum of the byte counts the
\* inner writer's successful writes returned since construction (0 when fresh).
C1_CountIsSum == Count(cw) = sum

\* C2: a write or poll_write the inner writer fails leaves count() as it was
\* before the call and returns exactly the inner writer's error.
C2_FailedWriteIsolated ==
    (last.op \in WriteOps /\ cw.inner.lastRet.tag = "Err")
        => (Count(cw) = last.pre /\ last.ret = cw.inner.lastRet)

C2_Witness ==
    /\ last.op = "write"
    /\ last.buf # <<>>
    /\ last.pre > 0
    /\ cw.inner.lastRet = Err("BrokenPipe")

\* C3: write(buf) forwards buf to the inner writer once; when the inner writer
\* accepts k bytes the wrapper returns Ok(k) and count() grows by exactly k.
C3_SingleForward ==
    (last.op = "write" /\ cw.inner.lastRet.tag = "Ok")
        => /\ last.ret = cw.inner.lastRet
           /\ Count(cw) = last.pre + cw.inner.lastRet.n
           /\ Len(cw.inner.calls) = Len(issued)

\* C4: a poll_write that is Pending leaves count() untouched, and one that is
\* Ready(Ok(n)) has increased count() by exactly n when it returns.
C4_PollCounts ==
    last.op = "poll_write"
        => /\ cw.inner.lastRet.tag = "Pending" => Count(cw) = last.pre
           /\ cw.inner.lastRet.tag = "Ok"
                 => (last.ret = cw.inner.lastRet
                     /\ Count(cw) = last.pre + cw.inner.lastRet.n)

\* C5: write_all over a wrapper around the writer that accepts ceil(n/2) bytes
\* terminates, and count() is then the length of the whole buffer.
C5_WriteAllCounts ==
    /\ [](pc = "done" => Count(cw) = Len(wbuf))
    /\ <>(pc = "done")

C5_Witness ==
    /\ pc = "done"
    /\ Len(wbuf) = 3
    /\ Count(cw) = 3
    /\ Len(issued) > 1

\* C6: flush, poll_flush and poll_shutdown leave count() unchanged and return
\* the inner operation's result, whatever it is.
C6_FlushForwards ==
    last.op \in FlushOps
        => (Count(cw) = last.pre /\ last.ret = cw.inner.lastRet)

C6_Witness ==
    /\ last.op = "flush"
    /\ last.pre > 0
    /\ last.ret = Err("Interrupted")

\* C7 as stated: the bytes the inner writer received are the concatenation of
\* the buffers of the writes that were accepted at least in part.
C7_ReceivedIsOffered == cw.inner.content = offered

\* C7 as amended: the bytes the inner writer received are the concatenation,
\* in order, of the accepted prefixes buf[..n] of the writes that returned Ok(n).
C7_ReceivedIsAccepted == cw.inner.content = accepted

C7_Witness ==
    /\ Len(issued) >= 2
    /\ cw.inner.content # <<>>
    /\ cw.inner.content # offered
    /\ last.op = "write"
    /\ last.ret.tag = "Ok"
    /\ last.ret.n > 0

\* C8: the inner writer of a wrapped run is in the state an unwrapped copy
\* given the same calls is in, and every call returns what it returns there.
C8_Transparent ==
    /\ IntoInner(cw) = direct
    /\ last.ret = last.dret

\* C9: count() after an operation is never below count() before it.
C9_CountNeverDecreases == Count(cw) >= last.pre

\* C10: the inner writer sees exactly the calls issued on the wrapper, one
\* inner call per wrapper call, same kind, same argument, same order, and a
\* write that has returned Ok(n) has already applied its update to the counter.
C10_Ordered ==
    /\ cw.inner.calls = issued
    /\ (last.op \in WriteOps /\ last.ret.tag = "Ok")
          => Count(cw) = (last.pre + last.ret.n) % Modulus

C10_Witness ==
    /\ Len(issued) = 3
    /\ issued[1].op = "write"
    /\ issued[2].op = "flush"
    /\ issued[3].op = "poll_write"
    /\ last.ret.tag = "Ok"
    /\ last.ret.n > 0
    /\ last.pre > 0

====
